---- MODULE Spec2Model ----
(***************************************************************************)
(* Model of the video-to-text repository: the sanitize / reverse-sanitize  *)
(* substitution (main.py, src/reverse_sanitize.py, confidential_terms.py)  *)
(* and the pipeline sequencer (src/process_video_complete.py).             *)
(*                                                                         *)
(* A text is a sequence of characters, each character a one-character      *)
(* string.  A regular expression is a sequence of tokens: a literal        *)
(* character, or the two-character token "\\b" (the word-boundary          *)
(* assertion).  The patterns of the repository use nothing else.           *)
(* A character outside ASCII is written in VIQR: "i." is i with dot below, *)
(* "e^'" is e with circumflex and acute, "u+'" is u with horn and acute.   *)
(***************************************************************************)
EXTENDS Integers, Sequences, FiniteSets, TLC

VARIABLES
    terms,      \* the module global CONFIDENTIAL_TERMS, as loaded at import
    advanced,   \* the module global ADVANCED_PATTERNS, as loaded at import
    text,       \* the text given to sanitize_text / reverse_sanitize_text
    sanitized,  \* the value returned by sanitize_text(text)
    restored,   \* the value returned by reverse_sanitize_text
    again,      \* the value returned by a further call
    tpc,        \* which calls have been made on text
    \* one run of complete_pipeline
    video_exists,   \* video_path.exists()
    video_path,     \* Path(video_path): its parent directory and its stem
    opt,            \* the arguments skip_summary, keep_sanitized, translate_to
    tv_returns,     \* what the imported transcribe_video returns: "bool" | "paths"
    ollama_up,      \* the Ollama service answers ollama.list()
    model_present,  \* the requested model is in the list
    files,          \* the artifact files on disk: artifact -> content
    results,        \* the dict results: key -> artifact
    skip_summary,   \* the local skip_summary
    translate_to,   \* the local translate_to is not None
    calls,          \* the collaborator calls and file writes made so far
    transcribed,    \* how the call of transcribe_video ended
    ppc,            \* the position in complete_pipeline
    ret,            \* what complete_pipeline returned
    script,         \* the script run: "root" (process_video_complete.py) | "src"
    faulted,        \* the stages in whose try block an exception was raised
    exit_status,    \* what main returned to sys.exit; -1 before it returns
    run,            \* the invocation of the script: the first, then the second
    answers,        \* what the collaborators answered in the first invocation
    first,          \* the files as the first invocation left them
    \* one run of src/auto_translate_google.py
    gpc,            \* the position in process_file / translate_with_google
    input_exists,   \* input_path.exists()
    input_content,  \* what the input file holds
    gtext,          \* the argument text of translate_with_google
    selector,       \* the index of the selector being tried
    driver,         \* the local driver: "None" | "open" | "quit"
    quits,          \* the calls of driver.quit()
    pending,        \* the exception on its way out, "none" if there is none
    screenshot,     \* driver.save_screenshot("error_screenshot.png") was called
    translated,     \* what translate_with_google gave its caller
    output_file,    \* the output file of process_file
    gstatus,        \* the exit status of the script; -1 while it runs
    \* one call of summarize_text or translate_text, up to its prompt
    fn,               \* the function called
    custom_prompt,    \* the argument custom_prompt; empty for None
    ptext,            \* the argument text
    target_language,  \* the argument target_language
    source_language,  \* the argument source_language; empty for None
    prompt,           \* the local prompt; what ollama.generate is given
    \* calls of get_language_code
    language,         \* the argument language; empty for None and for ''
    lang_code,        \* what get_language_code(language) returned
    lang_code2,       \* what get_language_code(lang_code) returned
    lpc,              \* which calls have been made
    \* one call of main.py's transcribe_video
    tvpc,             \* the position in transcribe_video
    tv_exists,        \* os.path.exists(video_path)
    output_path,      \* the argument output_path, then the local
    sanitize,         \* the argument sanitize
    transcription_text, \* what the segments of the aligned result hold
    step,             \* the index of the collaborator call to make
    tv_calls,         \* the collaborators called so far
    tv_raised,        \* the call or file operation that raised, "none" if none
    tv_files,         \* the files written: path -> content
    tv_ret            \* what transcribe_video returned

textVars == <<text, sanitized, restored, again, tpc>>
\* what no step of an invocation assigns
envVars  == <<video_exists, video_path, opt, tv_returns, ollama_up, model_present, script,
              run, first>>
pipeVars == <<envVars, files, results, skip_summary, translate_to, calls,
              transcribed, ppc, ret, faulted, exit_status, answers>>
googleVars == <<gpc, input_exists, input_content, gtext, selector, driver,
                quits, pending, screenshot, translated, output_file, gstatus>>
promptVars == <<fn, custom_prompt, ptext, target_language, source_language, prompt>>
langVars == <<language, lang_code, lang_code2, lpc>>
tvVars == <<tvpc, tv_exists, output_path, sanitize, transcription_text, step,
            tv_calls, tv_raised, tv_files, tv_ret>>
toolVars == <<promptVars, langVars, tvVars>>
vars == <<terms, advanced, textVars, pipeVars, googleVars, toolVars>>

----------------------------------------------------------------------------
(* Characters *)

WB == "\\b"

\* str.lower() / the case folding of re.IGNORECASE, on the characters used
Lower(c) ==
    CASE c = "A" -> "a" [] c = "N" -> "n" [] c = "H" -> "h" [] c = "C" -> "c"
      [] c = "K" -> "k" [] c = "I" -> "i" [] c = "T" -> "t" [] c = "X" -> "x"
      [] c = "I." -> "i." [] c = "E^'" -> "e^'" [] c = "U+'" -> "u+'"
      [] OTHER -> c

\* the characters \w does not match (Python 3 str patterns: Unicode letters,
\* digits and the underscore are word characters)
NonWordChars == {" ", ",", ".", "\n", WB}

IsWordChar(c) == c \notin NonWordChars

\* whitespace, as str.strip() sees it
IsSpace(c) == c \in {" ", "\n"}

----------------------------------------------------------------------------
(* confidential_terms.py *)

AnhChi    == <<"A", "n", "h", " ", "c", "h", "i.">>
anhChi    == <<"a", "n", "h", " ", "c", "h", "i.">>
KienThuc  == <<"K", "i", "e^'", "n", " ", "t", "h", "u+'", "c">>
kienThuc  == <<"k", "i", "e^'", "n", " ", "t", "h", "u+'", "c">>
AC        == <<"A", "C">>
KT        == <<"K", "T">>

\* the dict literal, in insertion order
CONFIDENTIAL_TERMS ==
    << [pattern |-> AnhChi,   code |-> AC],
       [pattern |-> anhChi,   code |-> AC],
       [pattern |-> KienThuc, code |-> KT],
       [pattern |-> kienThuc, code |-> KT] >>

ADVANCED_PATTERNS == << >>

----------------------------------------------------------------------------
(* re.sub on the token patterns *)

\* is there a word boundary just before position p of s (1 <= p <= Len(s)+1)
AtBoundary(s, p) ==
    LET before == p > 1 /\ IsWordChar(s[p - 1])
        after  == p <= Len(s) /\ IsWordChar(s[p])
    IN  before # after

\* the comparison without flags=re.IGNORECASE, whatever the call passes
CharEqExact(a, b, ignorecase) == a = b

CharEq(a, b, ignorecase) ==
    IF ignorecase THEN Lower(a) = Lower(b) ELSE a = b

\* the position after a match of pat[k..] starting at s[i], or 0 if none
RECURSIVE MatchEnd(_, _, _, _, _)
MatchEnd(s, i, pat, k, ignorecase) ==
    IF k > Len(pat) THEN i
    ELSE IF pat[k] = WB
         THEN IF AtBoundary(s, i) THEN MatchEnd(s, i, pat, k + 1, ignorecase)
              ELSE 0
    ELSE IF i <= Len(s) /\ CharEq(s[i], pat[k], ignorecase)
         THEN MatchEnd(s, i + 1, pat, k + 1, ignorecase)
    ELSE 0

\* leftmost, non-overlapping replacement scanning from position i
RECURSIVE ReSubFrom(_, _, _, _, _)
ReSubFrom(pat, repl, s, i, ignorecase) ==
    IF i > Len(s) THEN << >>
    ELSE LET e == MatchEnd(s, i, pat, 1, ignorecase)
         IN  IF e > i
             THEN repl \o ReSubFrom(pat, repl, s, e, ignorecase)
             ELSE <<s[i]>> \o ReSubFrom(pat, repl, s, i + 1, ignorecase)

re_sub(pat, repl, s, ignorecase) == ReSubFrom(pat, repl, s, 1, ignorecase)

----------------------------------------------------------------------------
(* main.py: sanitize_text *)

\* the loop taking the entries from the last declared to the first
RECURSIVE ApplyTermsReversed(_, _, _)
ApplyTermsReversed(s, tm, k) ==
    IF k > Len(tm) THEN s
    ELSE ApplyTermsReversed(
             re_sub(tm[Len(tm) + 1 - k].pattern, tm[Len(tm) + 1 - k].code, s, TRUE),
             tm, k + 1)

\* `for pattern, replacement in CONFIDENTIAL_TERMS.items()`: each re.sub is
\* given the text the one before returned
RECURSIVE ApplyTerms(_, _, _)
ApplyTerms(s, tm, k) ==
    IF k > Len(tm) THEN s
    ELSE ApplyTerms(re_sub(tm[k].pattern, tm[k].code, s, TRUE), tm, k + 1)

RECURSIVE ApplyAdvanced(_, _, _)
ApplyAdvanced(s, ap, k) ==
    IF k > Len(ap) THEN s
    ELSE ApplyAdvanced(re_sub(ap[k].pattern, ap[k].code, s, FALSE), ap, k + 1)

\* the first loop without flags=re.IGNORECASE
RECURSIVE ApplyTermsCaseSensitive(_, _, _)
ApplyTermsCaseSensitive(s, tm, k) ==
    IF k > Len(tm) THEN s
    ELSE ApplyTermsCaseSensitive(re_sub(tm[k].pattern, tm[k].code, s, FALSE), tm, k + 1)

sanitize_text_case_sensitive(s) ==
    ApplyAdvanced(ApplyTermsCaseSensitive(s, terms, 1), advanced, 1)

\* the two loops in the other order
sanitize_text_advanced_first(s) ==
    ApplyTerms(ApplyAdvanced(s, advanced, 1), terms, 1)

\* lines 63-73: the loop over CONFIDENTIAL_TERMS, then the loop over
\* ADVANCED_PATTERNS on what the first returned
sanitize_text(s) ==
    ApplyAdvanced(ApplyTerms(s, terms, 1), advanced, 1)

----------------------------------------------------------------------------
(* src/reverse_sanitize.py *)

\* str.replace(r'\b', ''): drop every boundary token
RemoveWB(p) == SelectSeq(p, LAMBDA c : c # WB)

RECURSIVE LStrip(_)
LStrip(s) == IF s # << >> /\ IsSpace(Head(s)) THEN LStrip(Tail(s)) ELSE s

RECURSIVE RStrip(_)
RStrip(s) ==
    IF s # << >> /\ IsSpace(s[Len(s)]) THEN RStrip(SubSeq(s, 1, Len(s) - 1))
    ELSE s

strip(s) == RStrip(LStrip(s))

HasCode(rm, code) == \E j \in 1..Len(rm) : rm[j].code = code

\* the loop without the `not in reverse_map` test: the last entry wins
RECURSIVE ReverseMapLastWins(_, _)
ReverseMapLastWins(tm, k) ==
    IF k = 0 THEN << >>
    ELSE LET rm            == ReverseMapLastWins(tm, k - 1)
             original_term == strip(RemoveWB(tm[k].pattern))
         IN  IF ~HasCode(rm, tm[k].code)
             THEN Append(rm, [code |-> tm[k].code, term |-> original_term])
             ELSE [j \in 1..Len(rm) |->
                      IF rm[j].code = tm[k].code
                      THEN [code |-> rm[j].code, term |-> original_term]
                      ELSE rm[j]]

\* the dict reverse_map, in insertion order, after entries 1..k of tm
RECURSIVE ReverseMapUpTo(_, _)
ReverseMapUpTo(tm, k) ==
    IF k = 0 THEN << >>
    ELSE LET rm            == ReverseMapUpTo(tm, k - 1)
             original_term == strip(RemoveWB(tm[k].pattern))
         IN  IF ~HasCode(rm, tm[k].code)
             THEN Append(rm, [code |-> tm[k].code, term |-> original_term])
             ELSE rm

create_reverse_mapping == ReverseMapUpTo(terms, Len(terms))

\* re.escape leaves letters and digits alone and puts a backslash before the
\* rest; the escaped character matches itself, which the literal token does
re_escape(code) == code

\* re.sub(..., count=1): only the leftmost match is replaced
RECURSIVE ReSubOnceFrom(_, _, _, _)
ReSubOnceFrom(pat, repl, s, i) ==
    IF i > Len(s) THEN << >>
    ELSE LET e == MatchEnd(s, i, pat, 1, FALSE)
         IN  IF e > i
             THEN repl \o SubSeq(s, e, Len(s))
             ELSE <<s[i]>> \o ReSubOnceFrom(pat, repl, s, i + 1)

\* the loop replacing one occurrence of each code
RECURSIVE ApplyReverseOnce(_, _, _)
ApplyReverseOnce(s, rm, k) ==
    IF k > Len(rm) THEN s
    ELSE ApplyReverseOnce(
             ReSubOnceFrom(<<WB>> \o re_escape(rm[k].code) \o <<WB>>, rm[k].term, s, 1),
             rm, k + 1)

\* the loop with the bare code as its pattern, no \b around it
RECURSIVE ApplyReverseUnbounded(_, _, _)
ApplyReverseUnbounded(s, rm, k) ==
    IF k > Len(rm) THEN s
    ELSE ApplyReverseUnbounded(
             re_sub(re_escape(rm[k].code), rm[k].term, s, FALSE), rm, k + 1)

\* the loop with flags=re.IGNORECASE, as sanitize_text has it
RECURSIVE ApplyReverseIgnoreCase(_, _, _)
ApplyReverseIgnoreCase(s, rm, k) ==
    IF k > Len(rm) THEN s
    ELSE ApplyReverseIgnoreCase(
             re_sub(<<WB>> \o re_escape(rm[k].code) \o <<WB>>, rm[k].term, s, TRUE),
             rm, k + 1)

RECURSIVE ApplyReverse(_, _, _)
ApplyReverse(s, rm, k) ==
    IF k > Len(rm) THEN s
    ELSE ApplyReverse(
             re_sub(<<WB>> \o re_escape(rm[k].code) \o <<WB>>, rm[k].term, s, FALSE),
             rm, k + 1)

reverse_sanitize_text(s) == ApplyReverse(s, create_reverse_mapping, 1)

----------------------------------------------------------------------------
(* Inputs *)

MaxPieces == 3

Pieces ==
    { AnhChi, anhChi, <<"A", "N", "H", " ", "C", "H", "I.">>,
      KienThuc,
      AC, <<"a", "c">>, KT,
      <<" ">> }

RECURSIVE Flatten(_)
Flatten(ps) == IF ps = << >> THEN << >> ELSE Head(ps) \o Flatten(Tail(ps))

\* texts of the kind test_file_workflow restores ("Xin chao AC, ... KT moi."),
\* and one with the letters of the codes inside a longer word
WorkflowTexts ==
    { <<"x", " ">> \o AC \o <<",", " ">> \o KT \o <<" ", "x", ".">>,
      AC \o <<" ", "x">> \o AC \o KT \o <<" ">> \o KT \o <<".">> }

\* a term inside the letters of another occurrence, so that a replacement
\* joins what stood on its two sides
NestedTexts ==
    { <<"k", "i", "e^'", "n", " ">> \o anhChi \o <<" ", "t", "h", "u+'", "c">>,
      <<"a">> \o AnhChi \o <<"n", "h", " ", "c", "h", "i.">>,
      <<"A", "n", "h", " ">> \o KienThuc \o <<"h", "i.">> }

Texts ==
    { Flatten(ps) : ps \in UNION { [1..n -> Pieces] : n \in 0..MaxPieces } }
        \cup WorkflowTexts \cup NestedTexts

Thuc == <<"t", "h", "u+'", "c">>
X    == <<"X">>

\* a map with overlapping patterns, the long phrase declared first
LongFirst ==
    << [pattern |-> KienThuc, code |-> KT], [pattern |-> Thuc, code |-> X] >>

\* the same entries, the suffix declared first
SuffixFirst ==
    << [pattern |-> Thuc, code |-> X], [pattern |-> KienThuc, code |-> KT] >>

\* the Term Maps a configuration file may hold
TermMaps ==
    { CONFIDENTIAL_TERMS, LongFirst, SuffixFirst,
      << [pattern |-> anhChi,   code |-> AC], [pattern |-> AnhChi,   code |-> AC],
         [pattern |-> kienThuc, code |-> KT], [pattern |-> KienThuc, code |-> KT] >>,
      << [pattern |-> <<WB>> \o AnhChi \o <<WB>>, code |-> AC],
         [pattern |-> <<WB>> \o KienThuc \o <<WB>>, code |-> KT] >> }

\* rules that rewrite the codes, so that the order of the passes shows
CodeRules ==
    << [pattern |-> AC, code |-> KT], [pattern |-> KT, code |-> X] >>

\* the same rules, declared in the other order
CodeRulesReversed ==
    << [pattern |-> KT, code |-> X], [pattern |-> AC, code |-> KT] >>

\* the configurations: a Term Map with the empty rule list of the repository,
\* or the default Term Map with each of the rule lists
Configurations ==
    { <<tm, ADVANCED_PATTERNS>> : tm \in TermMaps }
        \cup { <<CONFIDENTIAL_TERMS, ap>> : ap \in {CodeRules, CodeRulesReversed} }

----------------------------------------------------------------------------
(* The calls on a text *)

PromptIdle ==
    /\ fn = "none"
    /\ custom_prompt = << >>
    /\ ptext = << >>
    /\ target_language = << >>
    /\ source_language = << >>
    /\ prompt = << >>

LangIdle ==
    /\ language = << >>
    /\ lang_code = << >>
    /\ lang_code2 = << >>
    /\ lpc = "idle"

\* output_path None
NoPath == [dir |-> "", stem |-> << >>, suffix |-> ""]

TvIdle ==
    /\ tvpc = "idle"
    /\ tv_exists = FALSE
    /\ output_path = NoPath
    /\ sanitize = FALSE
    /\ transcription_text = << >>
    /\ step = 0
    /\ tv_calls = << >>
    /\ tv_raised = "none"
    /\ tv_files = << >>
    /\ tv_ret = "none yet"

ToolsIdle == PromptIdle /\ LangIdle /\ TvIdle

GoogleIdle ==
    /\ gpc = "idle"
    /\ input_exists = FALSE
    /\ input_content = << >>
    /\ gtext = << >>
    /\ selector = 0
    /\ driver = "None"
    /\ quits = 0
    /\ pending = "none"
    /\ screenshot = FALSE
    /\ translated = [kind |-> "none yet", text |-> << >>]
    /\ output_file = [written |-> FALSE, text |-> << >>]
    /\ gstatus = -1

PipeIdle ==
    /\ video_exists = FALSE
    /\ video_path = [parent |-> ".", stem |-> ""]
    /\ opt = [skip_summary |-> FALSE, keep_sanitized |-> FALSE, translate_to |-> FALSE]
    /\ tv_returns = "bool"
    /\ ollama_up = FALSE
    /\ model_present = FALSE
    /\ files = << >>
    /\ results = << >>
    /\ skip_summary = FALSE
    /\ translate_to = FALSE
    /\ calls = << >>
    /\ transcribed = "no"
    /\ ppc = "idle"
    /\ ret = "none yet"
    /\ script = "src"
    /\ faulted = {}
    /\ exit_status = -1
    /\ run = 1
    /\ answers = << >>
    /\ first = << >>

TextInit ==
    /\ \E c \in Configurations : terms = c[1] /\ advanced = c[2]
    /\ text \in Texts
    /\ sanitized = << >>
    /\ restored = << >>
    /\ again = << >>
    /\ tpc = "input"
    /\ PipeIdle
    /\ GoogleIdle
    /\ ToolsIdle

\* sanitized = sanitize_text(text)
Sanitize ==
    /\ tpc = "input"
    /\ sanitized' = sanitize_text(text)
    /\ tpc' = "sanitized"
    /\ UNCHANGED <<terms, advanced, toolVars, text, restored, again, pipeVars, googleVars>>

\* sanitize_text on the text sanitize_text returned
SanitizeAgain ==
    /\ tpc = "sanitized"
    /\ again' = sanitize_text(sanitized)
    /\ tpc' = "sanitized_twice"
    /\ UNCHANGED <<terms, advanced, toolVars, text, sanitized, restored, pipeVars, googleVars>>

\* restored = reverse_sanitize_text(sanitized)
Restore ==
    /\ tpc = "sanitized"
    /\ restored' = reverse_sanitize_text(sanitized)
    /\ tpc' = "restored"
    /\ UNCHANGED <<terms, advanced, toolVars, text, sanitized, again, pipeVars, googleVars>>

\* reverse_sanitize_text on a text that came from elsewhere (a summary, a file)
RestoreExternal ==
    /\ tpc = "input"
    /\ restored' = reverse_sanitize_text(text)
    /\ tpc' = "restored_external"
    /\ UNCHANGED <<terms, advanced, toolVars, text, sanitized, again, pipeVars, googleVars>>

\* reverse_sanitize_text on the text reverse_sanitize_text returned
RestoreAgain ==
    /\ tpc \in {"restored", "restored_external"}
    /\ again' = reverse_sanitize_text(restored)
    /\ tpc' = "restored_twice"
    /\ UNCHANGED <<terms, advanced, toolVars, text, sanitized, restored, pipeVars, googleVars>>

TextNext == Sanitize \/ SanitizeAgain \/ Restore \/ RestoreExternal \/ RestoreAgain

SpecText == TextInit /\ [][TextNext]_vars

----------------------------------------------------------------------------
(* src/process_video_complete.py: complete_pipeline *)

Artifacts == {"original", "sanitized", "summary_sanitized", "summary_restored",
              "translation_sanitized", "translation_restored"}

NL == "\n"

\* what the transcription collaborator hears in the video (transcription_text)
PipeTranscripts ==
    { << >>,
      AnhChi \o <<" ">> \o kienThuc \o <<NL>>,
      <<"A", "N", "H", " ", "C", "H", "I.", NL>>,
      <<"x", NL>> }

\* response['response'] of ollama.generate
GenTexts ==
    { << >>, AC, <<" ">> \o AC \o <<" ">> \o KT \o <<NL>>, <<"a", "c">> }

Ev(op, target, ok, arg) == [op |-> op, target |-> target, ok |-> ok, arg |-> arg]

\* open(path, 'a'): the content is added to what the file holds
WriteFileAppend(f, a, content) ==
    [x \in (DOMAIN f) \cup {a} |->
        IF x # a THEN f[x]
        ELSE IF a \in DOMAIN f THEN f[a] \o content ELSE content]

\* open(path, 'w') ... f.write(content)
WriteFile(f, a, content) ==
    [x \in (DOMAIN f) \cup {a} |-> IF x = a THEN content ELSE f[x]]

\* results[key] = path
Record(r, key, a) ==
    [x \in (DOMAIN r) \cup {key} |-> IF x = key THEN a ELSE r[x]]

Written(a) == \E i \in 1..Len(calls) : calls[i].op = "write" /\ calls[i].target = a

Called(op) == \E i \in 1..Len(calls) : calls[i].op = op

(* main.py: transcribe_video.  fault is where a collaborator or a file     *)
(* operation raised: "none", "collaborator" (before any write) or          *)
(* "write_sanitized" (the sanitized file could not be written).            *)
TranscribeFaults == {"none", "collaborator", "write_sanitized"}

transcribe_video_files(f, t, fault) ==
    IF fault = "collaborator" THEN f
    ELSE IF fault = "write_sanitized" THEN WriteFile(f, "original", strip(t))
    ELSE WriteFile(WriteFile(f, "original", strip(t)),
                   "sanitized", strip(sanitize_text(t)))

transcribe_video_writes(t, fault) ==
    IF fault = "collaborator" THEN << >>
    ELSE IF fault = "write_sanitized"
         THEN << Ev("write", "original", TRUE, strip(t)) >>
    ELSE << Ev("write", "original", TRUE, strip(t)),
            Ev("write", "sanitized", TRUE, strip(sanitize_text(t))) >>

\* the value main.py's transcribe_video returns: True, or False from its except
transcribe_video_returns(fault) == IF fault = "none" THEN "True" ELSE "False"

\* a transcribe_video that returns the two paths the call site unpacks, and
\* lets a failure propagate
transcribe_video_paths(fault) == IF fault = "none" THEN "paths" ELSE "raised"

\* `original_txt, sanitized_txt = transcribe_video(...)`: a bool cannot be
\* unpacked (TypeError), an exception propagates; both reach the except clause
UnpackRaises(v) == v # "paths"

\* the video given on the command line: in the working directory, or in
\* another one
VideoPaths ==
    { [parent |-> ".", stem |-> "talk"], [parent |-> "videos", stem |-> "talk"] }

\* translate_to.lower().replace(' ', '_') of the language "Vietnamese"
safe_lang == "vietnamese"

\* every artifact under the name of its sanitized form
PathOfSanitizedOnly(a) ==
    CASE a \in {"original", "sanitized"}
           -> [dir |-> ".", name |-> <<video_path.stem, "_sanitized", ".txt">>]
      [] a \in {"summary_sanitized", "summary_restored"}
           -> [dir  |-> video_path.parent,
               name |-> <<video_path.stem, "_summary_sanitized.txt">>]
      [] a \in {"translation_sanitized", "translation_restored"}
           -> [dir  |-> video_path.parent,
               name |-> <<video_path.stem, "_translation_", safe_lang, "_sanitized.txt">>]

\* the path each artifact is written to: main.py lines 98-100 and 142-144 with
\* output_path None, complete_pipeline lines 135-136, 152, 202-204 and 219
PathOf(a) ==
    CASE a = "original"
           -> [dir |-> ".", name |-> <<video_path.stem, ".txt">>]
      [] a = "sanitized"
           -> [dir |-> ".", name |-> <<video_path.stem, "_sanitized", ".txt">>]
      [] a = "summary_sanitized"
           -> [dir  |-> video_path.parent,
               name |-> <<video_path.stem, "_summary_sanitized.txt">>]
      [] a = "summary_restored"
           -> [dir  |-> video_path.parent,
               name |-> <<video_path.stem, "_summary_restored.txt">>]
      [] a = "translation_sanitized"
           -> [dir  |-> video_path.parent,
               name |-> <<video_path.stem, "_translation_", safe_lang, "_sanitized.txt">>]
      [] a = "translation_restored"
           -> [dir  |-> video_path.parent,
               name |-> <<video_path.stem, "_translation_", safe_lang, "_restored.txt">>]

\* src/process_video_complete.py, which has no translation stage, and
\* src/src/process_video_complete.py
Scripts == {"root", "src"}

PipeInit ==
    /\ terms = CONFIDENTIAL_TERMS
    /\ advanced = ADVANCED_PATTERNS
    /\ text = << >>
    /\ sanitized = << >>
    /\ restored = << >>
    /\ again = << >>
    /\ tpc = "idle"
    /\ video_exists \in BOOLEAN
    /\ video_path \in VideoPaths
    /\ opt \in [skip_summary : BOOLEAN, keep_sanitized : BOOLEAN, translate_to : BOOLEAN]
    /\ tv_returns \in {"bool", "paths"}
    /\ ollama_up \in BOOLEAN
    /\ model_present \in BOOLEAN
    /\ files = << >>
    /\ results = << >>
    /\ skip_summary = opt.skip_summary
    /\ translate_to = opt.translate_to
    /\ calls = << >>
    /\ transcribed = "no"
    /\ ppc = "start"
    /\ ret = "none yet"
    /\ script \in Scripts
    /\ script = "root" => ~opt.translate_to
    /\ faulted = {}
    /\ exit_status = -1
    /\ run = 1
    /\ answers = << >>
    /\ first = << >>
    /\ GoogleIdle
    /\ ToolsIdle

\* lines 78-84
CheckVideo ==
    /\ ppc = "start"
    /\ IF ~video_exists
       THEN ppc' = "done" /\ ret' = "None"
       ELSE ppc' = "transcribe" /\ ret' = ret
    /\ UNCHANGED <<terms, advanced, toolVars, textVars, googleVars, envVars, files, results, skip_summary,
                   translate_to, calls, transcribed, faulted, exit_status, answers>>

\* the except clause logging the error and going on to STEP 2
TranscribeExceptContinues == [ppc |-> "summary_probe", ret |-> "none yet"]

\* the except clause letting the exception go on to the caller
TranscribeExceptRaises == [ppc |-> "done", ret |-> "raised"]

\* the except clause of STEP 1 trying the transcription again
TranscribeExceptRetries == [ppc |-> "transcribe", ret |-> "none yet"]

\* the except clause of STEP 1, lines 97-99: return None
TranscribeExcept == [ppc |-> "done", ret |-> "None"]

\* an invocation after the first is given the answers of the first
Replays(stage, a) == IF run = 1 THEN TRUE ELSE answers[stage] = a

Noted(ans, stage, a) ==
    [x \in (DOMAIN ans) \cup {stage} |-> IF x = stage THEN a ELSE ans[x]]

\* STEP 1, lines 86-99
Transcribe ==
    /\ ppc = "transcribe"
    /\ \E t \in PipeTranscripts, fault \in TranscribeFaults :
         LET v == IF tv_returns = "bool" THEN transcribe_video_returns(fault)
                  ELSE transcribe_video_paths(fault)
         IN  /\ Replays("transcription", <<t, fault>>)
             /\ answers' = Noted(answers, "transcription", <<t, fault>>)
             /\ files' = transcribe_video_files(files, t, fault)
             /\ calls' = calls \o <<Ev("transcribe_video", "video", v \in {"True", "paths"}, << >>)>>
                               \o transcribe_video_writes(t, fault)
             /\ transcribed' = v
             /\ IF UnpackRaises(v)
                THEN /\ ppc' = TranscribeExcept.ppc
                     /\ ret' = TranscribeExcept.ret
                     /\ results' = results
                     /\ faulted' = faulted \cup {"transcription"}
                ELSE /\ ppc' = "summary_probe"
                     /\ ret' = ret
                     /\ results' = Record(Record(results, "transcription_original", "original"),
                                          "transcription_sanitized", "sanitized")
                     /\ faulted' = faulted
    /\ UNCHANGED <<terms, advanced, toolVars, textVars, googleVars, envVars, skip_summary, translate_to, exit_status>>

\* check_ollama_service() and, if it answered True, check_model_available(model)
Probes(stage) ==
    IF ollama_up
    THEN << Ev("check_ollama_service", stage, TRUE, << >>),
            Ev("check_model_available", stage, model_present, << >>) >>
    ELSE << Ev("check_ollama_service", stage, FALSE, << >>) >>

\* going on when the service answers, whatever check_model_available says
AvailableServiceOnly == ollama_up

Available == ollama_up /\ model_present

\* STEP 2, lines 102-111
SummaryProbe ==
    /\ ppc = "summary_probe"
    /\ IF ~skip_summary
       THEN /\ calls' = calls \o Probes("summary")
            /\ skip_summary' = ~Available
       ELSE UNCHANGED <<calls, skip_summary>>
    /\ ppc' = "summarize"
    /\ UNCHANGED <<terms, advanced, toolVars, textVars, googleVars, envVars, files, results, translate_to,
                   transcribed, ret, faulted, exit_status, answers>>

\* the stage opening original_txt instead
ReadOriginal == files["original"]

\* `with open(sanitized_txt, 'r') as f: sanitized_content = f.read()`
ReadSanitized == files["sanitized"]

\* the outcomes of a generation stage: the collaborator's answer (None, or a
\* text) and what raised, if anything did: "call" (the collaborator raised
\* instead of returning), "write_sanitized", "write_restored" (that file could
\* not be written)
GenOutcomes ==
    [none : {TRUE}, text : {<< >>}, fault : {"none", "call"}]
      \cup [none : {FALSE}, text : GenTexts,
            fault : {"none", "write_sanitized", "write_restored"}]

\* `reverse_sanitize_text(summary, reverse_map)`, line 145 of the root script:
\* reverse_sanitize_text takes one argument, the call raises TypeError
RestoreCallRaises == script = "root"

\* the body of a generation stage after its call returned `out`: lines 130-159
\* for the summary, 198-226 for the translation.  Gives the new files, results
\* and log, whether the stage ended in its failure branch, and whether that
\* was its except clause.
StageBody(kind, out, f, r) ==
    LET san     == IF kind = "summary" THEN "summary_sanitized" ELSE "translation_sanitized"
        res     == IF kind = "summary" THEN "summary_restored" ELSE "translation_restored"
        gen     == strip(out.text)
        back    == reverse_sanitize_text(gen)
        failed0 == [files |-> f, results |-> r, log |-> << >>, failed |-> TRUE,
                    raised |-> out.fault # "none"]
    IN  IF out.none THEN failed0
        ELSE IF out.fault = "write_sanitized" THEN failed0
        ELSE LET f1 == WriteFile(f, san, gen)
                 r1 == Record(r, san, san)
                 l1 == << Ev("write", san, TRUE, gen) >>
             IN  IF opt.keep_sanitized
                 THEN [files |-> f1, results |-> r1, log |-> l1, failed |-> FALSE,
                       raised |-> FALSE]
                 ELSE IF RestoreCallRaises \/ out.fault = "write_restored"
                 THEN [files |-> f1, results |-> r1,
                       log |-> l1 \o << Ev("reverse_sanitize_text", res,
                                           ~RestoreCallRaises, gen) >>,
                       failed |-> TRUE, raised |-> TRUE]
                 ELSE [files |-> WriteFile(f1, res, back),
                       results |-> Record(r1, res, res),
                       log |-> l1 \o << Ev("reverse_sanitize_text", res, TRUE, gen),
                                        Ev("write", res, TRUE, back) >>,
                       failed |-> FALSE, raised |-> FALSE]

\* STEP 2 and 3, lines 113-163
Summarize ==
    /\ ppc = "summarize"
    /\ IF ~skip_summary
       THEN \E out \in GenOutcomes :
              LET content == ReadSanitized
                  b       == StageBody("summary", out, files, results)
              IN  /\ Replays("summary", out)
                  /\ answers' = Noted(answers, "summary", out)
                  /\ calls' = calls
                        \o << Ev("summarize_text", "summary", ~out.none, content) >>
                        \o b.log
                  /\ files' = b.files
                  /\ results' = b.results
                  /\ skip_summary' = b.failed
                  /\ faulted' = IF b.raised THEN faulted \cup {"summary"} ELSE faulted
       ELSE UNCHANGED <<calls, files, results, skip_summary, faulted, answers>>
    /\ ppc' = "translate_probe"
    /\ UNCHANGED <<terms, advanced, toolVars, textVars, googleVars, envVars, translate_to, transcribed, ret,
                   exit_status>>

\* translating only what was summarized
TranslationWantedIfSummarized == translate_to /\ ~skip_summary

\* `if translate_to:`, lines 166 and 178
TranslationWanted == translate_to

\* lines 166-176: the probes are made only if the summary was skipped or failed
TranslateProbe ==
    /\ ppc = "translate_probe"
    /\ IF TranslationWanted /\ skip_summary
       THEN /\ calls' = calls \o Probes("translation")
            /\ translate_to' = Available
       ELSE UNCHANGED <<calls, translate_to>>
    /\ ppc' = "translate"
    /\ UNCHANGED <<terms, advanced, toolVars, textVars, googleVars, envVars, files, results, skip_summary,
                   transcribed, ret, faulted, exit_status, answers>>

\* lines 178-231
Translate ==
    /\ ppc = "translate"
    /\ IF TranslationWanted
       THEN \E out \in GenOutcomes :
              LET content == ReadSanitized
                  b       == StageBody("translation", out, files, results)
              IN  /\ Replays("translation", out)
                  /\ answers' = Noted(answers, "translation", out)
                  /\ calls' = calls
                        \o << Ev("translate_text", "translation", ~out.none, content) >>
                        \o b.log
                  /\ files' = b.files
                  /\ results' = b.results
                  /\ faulted' = IF b.raised THEN faulted \cup {"translation"} ELSE faulted
       ELSE UNCHANGED <<calls, files, results, faulted, answers>>
    /\ ppc' = "return"
    /\ UNCHANGED <<terms, advanced, toolVars, textVars, googleVars, envVars, skip_summary, translate_to,
                   transcribed, ret, exit_status>>

\* line 233: return results
Return ==
    /\ ppc = "return"
    /\ ppc' = "done"
    /\ ret' = "results"
    /\ UNCHANGED <<terms, advanced, toolVars, textVars, googleVars, envVars, files, results, skip_summary,
                   translate_to, calls, transcribed, faulted, exit_status, answers>>

\* main, lines 357-387: `if results:` ... return 0, else ... return 1
main_returns(r, res) == IF r = "results" /\ DOMAIN res # {} THEN 0 ELSE 1

\* main returns its status to sys.exit
MainReturn ==
    /\ ppc = "done"
    /\ exit_status = -1
    /\ exit_status' = main_returns(ret, results)
    /\ UNCHANGED <<terms, advanced, toolVars, textVars, googleVars, envVars, files, results, skip_summary,
                   translate_to, calls, transcribed, ppc, ret, faulted, answers>>

\* the command is given a second time: the files of the first invocation are
\* in place, the locals are new
Rerun ==
    /\ ppc = "done"
    /\ exit_status # -1
    /\ run = 1
    /\ run' = 2
    /\ first' = files
    /\ results' = << >>
    /\ skip_summary' = opt.skip_summary
    /\ translate_to' = opt.translate_to
    /\ calls' = << >>
    /\ transcribed' = "no"
    /\ ppc' = "start"
    /\ ret' = "none yet"
    /\ faulted' = {}
    /\ exit_status' = -1
    /\ UNCHANGED <<terms, advanced, toolVars, textVars, googleVars, video_exists, video_path, opt,
                   tv_returns, ollama_up, model_present, script, files, answers>>

Next ==
    \/ CheckVideo
    \/ Transcribe
    \/ SummaryProbe
    \/ Summarize
    \/ TranslateProbe
    \/ Translate
    \/ Return
    \/ MainReturn
    \/ Rerun

Spec == PipeInit /\ [][Next]_vars

\* a step of complete_pipeline: each statement is synchronous, and every
\* collaborator call returns or raises
PipelineStep ==
    \/ CheckVideo
    \/ Transcribe
    \/ SummaryProbe
    \/ Summarize
    \/ TranslateProbe
    \/ Translate
    \/ Return

\* one invocation of the command: complete_pipeline, then main's return
NextOnce ==
    \/ PipelineStep
    \/ MainReturn

\* the runs in which the interpreter goes on to the next statement
SpecLive == PipeInit /\ [][NextOnce]_vars /\ WF_vars(PipelineStep)

----------------------------------------------------------------------------
(* src/auto_translate_google.py: process_file and translate_with_google *)

\* the CSS selectors tried for the source textarea, for the copy button and
\* for the translation itself
selectors ==
    << "textarea[aria-label*='Source text']", "textarea[aria-label*='Van ban nguon']",
       "textarea.er8xn", "textarea[jsname]" >>

copy_selectors ==
    << "button[aria-label*='Copy translation']", "button[aria-label*='Sao chep ban dich']",
       "button.VfPpkd-Bz112c-LgbsSe.yHy1rc.eT1oJ.mN1ivc.YJBIwf", "button[jsname='W297wb']" >>

translation_selectors ==
    << "span[jsname='W297wb']", "span.ryNqvb", "div.J0lOec span" >>

\* what the input file may hold
GoogleInputs == { << >>, <<" ", NL>>, <<"x", NL>>, AC }

\* what the page, or the clipboard, may hold besides the text that was entered
PageTexts == { << >>, <<"y">> }

\* what a call on the driver does: it returns, or raises TimeoutException, or
\* raises another exception (WebDriverException, NoSuchElementException, ...)
DriverOutcomes == {"ok", "TimeoutException", "Exception"}

GoogleInit ==
    /\ terms = CONFIDENTIAL_TERMS
    /\ advanced = ADVANCED_PATTERNS
    /\ text = << >>
    /\ sanitized = << >>
    /\ restored = << >>
    /\ again = << >>
    /\ tpc = "idle"
    /\ PipeIdle
    /\ ToolsIdle
    /\ gpc = "process_file"
    /\ input_exists \in BOOLEAN
    /\ input_content \in GoogleInputs
    /\ ~input_exists => input_content = << >>
    /\ gtext = << >>
    /\ selector = 0
    /\ driver = "None"
    /\ quits = 0
    /\ pending = "none"
    /\ screenshot = FALSE
    /\ translated = [kind |-> "none yet", text |-> << >>]
    /\ output_file = [written |-> FALSE, text |-> << >>]
    /\ gstatus = -1

\* process_file, lines 260-283: the file is read and stripped; a missing or an
\* empty file ends the script with sys.exit(1)
ProcessFileRead ==
    /\ gpc = "process_file"
    /\ IF ~input_exists \/ strip(input_content) = << >>
       THEN /\ gstatus' = 1
            /\ gpc' = "exited"
            /\ gtext' = gtext
       ELSE /\ gtext' = strip(input_content)
            /\ gpc' = "setup"
            /\ gstatus' = gstatus
    /\ UNCHANGED <<terms, advanced, toolVars, textVars, pipeVars, quits, input_exists, input_content, selector,
                   driver, pending, screenshot, translated, output_file>>

\* line 132: setup_edge_driver returns the driver, or ends in sys.exit(1)
SetupDriver ==
    /\ gpc = "setup"
    /\ \E up \in BOOLEAN :
         IF up
         THEN driver' = "open" /\ gpc' = "get" /\ pending' = pending
         ELSE driver' = driver /\ gpc' = "finally" /\ pending' = "SystemExit"
    /\ UNCHANGED <<terms, advanced, toolVars, textVars, pipeVars, quits, input_exists, input_content, gtext,
                   selector, screenshot, translated, output_file, gstatus>>

\* lines 135-140: driver.get(url), outside the inner try
GetUrl ==
    /\ gpc = "get"
    /\ \E r \in DriverOutcomes :
         IF r = "ok"
         THEN gpc' = "source" /\ selector' = 1 /\ pending' = pending
         ELSE gpc' = "finally" /\ selector' = selector /\ pending' = r
    /\ UNCHANGED <<terms, advanced, toolVars, textVars, pipeVars, quits, input_exists, input_content, gtext,
                   driver, screenshot, translated, output_file, gstatus>>

\* lines 154-164: one wait.until per selector, its exception swallowed by the
\* bare except; `raise Exception("Could not find source text input")` when
\* no selector gave the textarea
FindSource ==
    /\ gpc = "source"
    /\ \E found \in BOOLEAN :
         IF found
         THEN gpc' = "enter" /\ selector' = selector /\ pending' = pending
         ELSE IF selector < Len(selectors)
         THEN gpc' = gpc /\ selector' = selector + 1 /\ pending' = pending
         ELSE gpc' = "except" /\ selector' = selector /\ pending' = "Exception"
    /\ UNCHANGED <<terms, advanced, toolVars, textVars, pipeVars, quits, input_exists, input_content, gtext,
                   driver, screenshot, translated, output_file, gstatus>>

\* lines 167-172: source_textarea.clear(), send_keys(text), time.sleep(3)
EnterText ==
    /\ gpc = "enter"
    /\ \E r \in DriverOutcomes :
         IF r = "ok"
         THEN gpc' = "copy" /\ selector' = 1 /\ pending' = pending
         ELSE gpc' = "except" /\ selector' = selector /\ pending' = r
    /\ UNCHANGED <<terms, advanced, toolVars, textVars, pipeVars, quits, input_exists, input_content, gtext,
                   driver, screenshot, translated, output_file, gstatus>>

\* lines 184-193: one wait.until per copy selector; without a button the text
\* is looked for directly
FindCopy ==
    /\ gpc = "copy"
    /\ \E found \in BOOLEAN :
         IF found
         THEN gpc' = "click" /\ selector' = selector
         ELSE IF selector < Len(copy_selectors)
         THEN gpc' = gpc /\ selector' = selector + 1
         ELSE gpc' = "direct" /\ selector' = 1
    /\ UNCHANGED <<terms, advanced, toolVars, textVars, pipeVars, quits, input_exists, input_content, gtext,
                   driver, pending, screenshot, translated, output_file, gstatus>>

\* `if translated_text and translated_text != text`, lines 206 and 223 negated
Usable(t) == t # << >> /\ t # gtext

\* lines 202-212: find_element per selector, its exception swallowed; the
\* first usable text is returned, `raise Exception(...)` if there is none
Direct ==
    /\ gpc = "direct"
    /\ \E r \in {"raised", "element"}, t \in PageTexts \cup {gtext} :
         IF r = "element" /\ Usable(t)
         THEN /\ translated' = [kind |-> "returned", text |-> t]
              /\ gpc' = "finally" /\ selector' = selector /\ pending' = pending
         ELSE /\ translated' = translated
              /\ IF selector < Len(translation_selectors)
                 THEN gpc' = gpc /\ selector' = selector + 1 /\ pending' = pending
                 ELSE gpc' = "except" /\ selector' = selector /\ pending' = "Exception"
    /\ UNCHANGED <<terms, advanced, toolVars, textVars, pipeVars, quits, input_exists, input_content, gtext,
                   driver, screenshot, output_file, gstatus>>

\* lines 216-217: copy_button.click(), time.sleep(1)
ClickCopy ==
    /\ gpc = "click"
    /\ \E r \in DriverOutcomes :
         IF r = "ok"
         THEN gpc' = "paste" /\ pending' = pending
         ELSE gpc' = "except" /\ pending' = r
    /\ UNCHANGED <<terms, advanced, toolVars, textVars, pipeVars, quits, input_exists, input_content, gtext,
                   selector, driver, screenshot, translated, output_file, gstatus>>

\* lines 221-227: pyperclip.paste(); an empty or unchanged text raises
Paste ==
    /\ gpc = "paste"
    /\ \E t \in PageTexts \cup {gtext} :
         IF Usable(t)
         THEN /\ translated' = [kind |-> "returned", text |-> t]
              /\ gpc' = "finally" /\ pending' = pending
         ELSE /\ translated' = translated
              /\ gpc' = "except" /\ pending' = "Exception"
    /\ UNCHANGED <<terms, advanced, toolVars, textVars, pipeVars, quits, input_exists, input_content, gtext,
                   selector, driver, screenshot, output_file, gstatus>>

\* lines 229-238: `except TimeoutException:` prints and raises; `except
\* Exception` saves the screenshot, then raises
TakesScreenshot(exc) == exc # "TimeoutException"

\* the except clauses of the inner try
Except ==
    /\ gpc = "except"
    /\ screenshot' = (screenshot \/ TakesScreenshot(pending))
    /\ gpc' = "finally"
    /\ UNCHANGED <<terms, advanced, toolVars, textVars, pipeVars, quits, input_exists, input_content, gtext,
                   selector, driver, pending, translated, output_file, gstatus>>

\* driver.quit() as the last statement of the try block: not reached by an
\* exception
quits_at_end_of_try(d, exc) == d # "None" /\ exc = "none"

\* line 241, `if driver:` in the finally clause, whatever is pending
finally_quits(d, exc) == d # "None"

\* lines 240-242: `if driver: driver.quit()`, then the return value or the
\* exception reaches the caller
Finally ==
    /\ gpc = "finally"
    /\ IF finally_quits(driver, pending)
       THEN driver' = "quit" /\ quits' = quits + 1
       ELSE driver' = driver /\ quits' = quits
    /\ translated' = IF pending # "none" THEN [kind |-> "raised", text |-> << >>]
                     ELSE translated
    /\ gpc' = "caller"
    /\ UNCHANGED <<terms, advanced, toolVars, textVars, pipeVars, input_exists, input_content, gtext,
                   selector, pending, screenshot, output_file, gstatus>>

\* process_file, lines 286-314: an exception ends the script with
\* sys.exit(1); a translation is written to the output file
ProcessFileSave ==
    /\ gpc = "caller"
    /\ IF translated.kind = "raised"
       THEN gstatus' = 1 /\ output_file' = output_file
       ELSE /\ gstatus' = 0
            /\ output_file' = [written |-> TRUE, text |-> translated.text]
    /\ gpc' = "exited"
    /\ UNCHANGED <<terms, advanced, toolVars, textVars, pipeVars, quits, input_exists, input_content, gtext,
                   selector, driver, pending, screenshot, translated>>

GoogleNext ==
    \/ ProcessFileRead
    \/ SetupDriver
    \/ GetUrl
    \/ FindSource
    \/ EnterText
    \/ FindCopy
    \/ Direct
    \/ ClickCopy
    \/ Paste
    \/ Except
    \/ Finally
    \/ ProcessFileSave

SpecGoogle == GoogleInit /\ [][GoogleNext]_vars

----------------------------------------------------------------------------
(* summarize_with_ollama.py, translate_with_ollama.py: the prompt *)

TEXT        == <<"{", "t", "e", "x", "t", "}">>
TARGET_LANG == <<"{", "t", "a", "r", "g", "e", "t", "_", "l", "a", "n", "g", "}">>
SOURCE_LANG == <<"{", "s", "o", "u", "r", "c", "e", "_", "l", "a", "n", "g", "}">>

StartsAt(old, s, i) ==
    i + Len(old) - 1 <= Len(s) /\ SubSeq(s, i, i + Len(old) - 1) = old

\* str.replace(old, new) for a non-empty old: every non-overlapping
\* occurrence, from the left; what was put in is not looked at again
RECURSIVE StrReplaceFrom(_, _, _, _)
StrReplaceFrom(s, old, new, i) ==
    IF i > Len(s) THEN << >>
    ELSE IF StartsAt(old, s, i)
         THEN new \o StrReplaceFrom(s, old, new, i + Len(old))
    ELSE <<s[i]>> \o StrReplaceFrom(s, old, new, i + 1)

str_replace(s, old, new) == StrReplaceFrom(s, old, new, 1)

\* the f-string of summarize_text with max_length None; a fixed line of the
\* prompt is one element
default_summary_prompt(t) ==
    << "Please provide a concise summary of the following text.\n",
       "Focus on the main points and key information.\n",
       "\n", "\n", "Text to summarize:\n" >> \o t \o << "\n", "\n", "Summary:" >>

\* the two f-strings of translate_text
default_translation_prompt(t, target, source) ==
    (IF source # << >>
     THEN << "Translate the following text from " >> \o source \o << " to " >>
     ELSE << "Translate the following text to " >>)
      \o target
      \o << ".\n",
            "Maintain the original meaning and tone. Keep any abbreviations or codes (like AC, KT) unchanged.\n",
            "\n", "Text to translate:\n" >>
      \o t
      \o << "\n", "\n", "Translation in " >> \o target \o << ":" >>

\* summarize_text, lines 104-115
summarize_prompt(custom, t) ==
    IF custom # << >> THEN str_replace(custom, TEXT, t)
    ELSE default_summary_prompt(t)

\* translate_text, lines 103-124
translate_prompt(custom, t, target, source) ==
    IF custom # << >>
    THEN LET p1 == str_replace(str_replace(custom, TEXT, t), TARGET_LANG, target)
         IN  IF source # << >> THEN str_replace(p1, SOURCE_LANG, source) ELSE p1
    ELSE default_translation_prompt(t, target, source)

\* --prompt: templates of the kind the help texts show
Templates ==
    { <<"S", ":", " ">> \o TEXT,
      TARGET_LANG \o <<":", " ">> \o TEXT,
      SOURCE_LANG \o <<">">> \o TARGET_LANG \o <<":", " ">> \o TEXT,
      TEXT \o <<" ">> \o TEXT }

\* the texts handed over: plain ones, and ones that hold a placeholder
PromptTexts ==
    { << >>, AC, <<"x", " ">> \o AC, AC \o <<" ">> \o TARGET_LANG, SOURCE_LANG, TEXT }

LanguageNames == { <<"v", "i">>, <<"E", "n", "g", "l", "i", "s", "h">> }

PromptInit ==
    /\ terms = CONFIDENTIAL_TERMS
    /\ advanced = ADVANCED_PATTERNS
    /\ text = << >>
    /\ sanitized = << >>
    /\ restored = << >>
    /\ again = << >>
    /\ tpc = "idle"
    /\ PipeIdle
    /\ GoogleIdle
    /\ fn = "none"
    /\ custom_prompt \in Templates \cup {<< >>}
    /\ ptext \in PromptTexts
    /\ target_language \in LanguageNames
    /\ source_language \in LanguageNames \cup {<< >>}
    /\ prompt = << >>
    /\ LangIdle
    /\ TvIdle

SummarizePrompt ==
    /\ fn = "none"
    /\ fn' = "summarize_text"
    /\ prompt' = summarize_prompt(custom_prompt, ptext)
    /\ UNCHANGED <<terms, advanced, textVars, pipeVars, googleVars, langVars, tvVars,
                   custom_prompt, ptext, target_language, source_language>>

TranslatePrompt ==
    /\ fn = "none"
    /\ fn' = "translate_text"
    /\ prompt' = translate_prompt(custom_prompt, ptext, target_language, source_language)
    /\ UNCHANGED <<terms, advanced, textVars, pipeVars, googleVars, langVars, tvVars,
                   custom_prompt, ptext, target_language, source_language>>

PromptNext == SummarizePrompt \/ TranslatePrompt

SpecPrompt == PromptInit /\ [][PromptNext]_vars

----------------------------------------------------------------------------
(* src/auto_translate_google.py: get_language_code *)

UpperCase ==
    << "A", "B", "C", "D", "E", "F", "G", "H", "I", "J", "K", "L", "M",
       "N", "O", "P", "Q", "R", "S", "T", "U", "V", "W", "X", "Y", "Z" >>

LowerCase ==
    << "a", "b", "c", "d", "e", "f", "g", "h", "i", "j", "k", "l", "m",
       "n", "o", "p", "q", "r", "s", "t", "u", "v", "w", "x", "y", "z" >>

\* str.lower() on ASCII
lower(w) ==
    [i \in 1..Len(w) |->
        IF \E k \in 1..Len(UpperCase) : UpperCase[k] = w[i]
        THEN LowerCase[CHOOSE k \in 1..Len(UpperCase) : UpperCase[k] = w[i]]
        ELSE w[i]]

\* the dict literal, lines 31-46
LANGUAGE_CODES ==
    << [name |-> <<"e", "n", "g", "l", "i", "s", "h">>,
        code |-> <<"e", "n">>],
       [name |-> <<"v", "i", "e", "t", "n", "a", "m", "e", "s", "e">>,
        code |-> <<"v", "i">>],
       [name |-> <<"s", "p", "a", "n", "i", "s", "h">>,
        code |-> <<"e", "s">>],
       [name |-> <<"f", "r", "e", "n", "c", "h">>,
        code |-> <<"f", "r">>],
       [name |-> <<"g", "e", "r", "m", "a", "n">>,
        code |-> <<"d", "e">>],
       [name |-> <<"c", "h", "i", "n", "e", "s", "e">>,
        code |-> <<"z", "h", "-", "C", "N">>],
       [name |-> <<"j", "a", "p", "a", "n", "e", "s", "e">>,
        code |-> <<"j", "a">>],
       [name |-> <<"k", "o", "r", "e", "a", "n">>,
        code |-> <<"k", "o">>],
       [name |-> <<"t", "h", "a", "i">>,
        code |-> <<"t", "h">>],
       [name |-> <<"r", "u", "s", "s", "i", "a", "n">>,
        code |-> <<"r", "u">>],
       [name |-> <<"p", "o", "r", "t", "u", "g", "u", "e", "s", "e">>,
        code |-> <<"p", "t">>],
       [name |-> <<"i", "t", "a", "l", "i", "a", "n">>,
        code |-> <<"i", "t">>],
       [name |-> <<"a", "r", "a", "b", "i", "c">>,
        code |-> <<"a", "r">>],
       [name |-> <<"h", "i", "n", "d", "i">>,
        code |-> <<"h", "i">>] >>

\* LANGUAGE_CODES.get(key, default)
dict_get(d, key, default) ==
    IF \E k \in 1..Len(d) : d[k].name = key
    THEN d[CHOOSE k \in 1..Len(d) : d[k].name = key].code
    ELSE default

\* `len(language) == 2 or (len(language) == 5 and '-' in language)`
LooksLikeCode(w) ==
    Len(w) = 2 \/ (Len(w) = 5 /\ \E i \in 1..Len(w) : w[i] = "-")

\* lines 59-68
get_language_code(w) ==
    IF w = << >> THEN <<"a", "u", "t", "o">>
    ELSE IF LooksLikeCode(w) THEN lower(w)
    ELSE dict_get(LANGUAGE_CODES, lower(w), lower(w))

\* str.capitalize() of a lowercase name: "English", as the help text has it
Capitalized(w) ==
    [i \in 1..Len(w) |->
        IF i = 1 THEN UpperCase[CHOOSE k \in 1..Len(LowerCase) : LowerCase[k] = w[1]]
        ELSE w[i]]

\* --target-lang / --source-lang: a supported name in lower case or
\* capitalized, a documented code, nothing, 'auto', or something unknown
LanguageInputs ==
    { LANGUAGE_CODES[k].name : k \in 1..Len(LANGUAGE_CODES) }
      \cup { Capitalized(LANGUAGE_CODES[k].name) : k \in 1..Len(LANGUAGE_CODES) }
      \cup { LANGUAGE_CODES[k].code : k \in 1..Len(LANGUAGE_CODES) }
      \cup { << >>, <<"a", "u", "t", "o">>, <<"E", "N">>,
             <<"k", "l", "i", "n", "g", "o", "n">> }

LangInit ==
    /\ terms = CONFIDENTIAL_TERMS
    /\ advanced = ADVANCED_PATTERNS
    /\ text = << >>
    /\ sanitized = << >>
    /\ restored = << >>
    /\ again = << >>
    /\ tpc = "idle"
    /\ PipeIdle
    /\ GoogleIdle
    /\ PromptIdle
    /\ TvIdle
    /\ language \in LanguageInputs
    /\ lang_code = << >>
    /\ lang_code2 = << >>
    /\ lpc = "arg"

\* lang_code = get_language_code(language), as translate_with_google calls it
Resolve ==
    /\ lpc = "arg"
    /\ lang_code' = get_language_code(language)
    /\ lpc' = "resolved"
    /\ UNCHANGED <<terms, advanced, textVars, pipeVars, googleVars, promptVars, tvVars,
                   language, lang_code2>>

\* get_language_code on the code it returned
ResolveAgain ==
    /\ lpc = "resolved"
    /\ lang_code2' = get_language_code(lang_code)
    /\ lpc' = "twice"
    /\ UNCHANGED <<terms, advanced, textVars, pipeVars, googleVars, promptVars, tvVars,
                   language, lang_code>>

LangNext == Resolve \/ ResolveAgain

SpecLang == LangInit /\ [][LangNext]_vars

----------------------------------------------------------------------------
(* main.py: transcribe_video, called by main *)

\* the calls of lines 108-124, in order
Collaborators ==
    << "whisperx.load_model", "whisperx.load_audio", "model.transcribe",
       "whisperx.load_align_model", "whisperx.align" >>

\* the video given to main.py
video_name == "talk"

\* -o / --output: not given, a file name, or a path with a directory
OutputPaths ==
    { NoPath,
      [dir |-> ".",   stem |-> <<"out">>,   suffix |-> ".txt"],
      [dir |-> "out", stem |-> <<"notes">>, suffix |-> ".md"] }

\* lines 98-100: f"{video_name}.txt" when output_path is None
resolved_output_path(op) ==
    IF op = NoPath THEN [dir |-> ".", stem |-> <<video_name>>, suffix |-> ".txt"]
    ELSE op

\* lines 142-144: Path(output_path).stem and .suffix leave the directory
\* out; f"{base_name}_sanitized{extension}" is relative to the working
\* directory
sanitized_output_path(op) ==
    [dir |-> ".", stem |-> Append(op.stem, "_sanitized"), suffix |-> op.suffix]

\* the except clause letting the exception go to the caller
tv_except_raises == "raised"

\* lines 156-158: `except Exception`: print, return False
tv_except == "False"

TvInit ==
    /\ terms = CONFIDENTIAL_TERMS
    /\ advanced = ADVANCED_PATTERNS
    /\ text = << >>
    /\ sanitized = << >>
    /\ restored = << >>
    /\ again = << >>
    /\ tpc = "idle"
    /\ PipeIdle
    /\ GoogleIdle
    /\ PromptIdle
    /\ LangIdle
    /\ tvpc = "start"
    /\ tv_exists \in BOOLEAN
    /\ output_path \in OutputPaths
    /\ sanitize \in BOOLEAN
    /\ transcription_text \in PipeTranscripts
    /\ step = 0
    /\ tv_calls = << >>
    /\ tv_raised = "none"
    /\ tv_files = << >>
    /\ tv_ret = "none yet"

\* lines 90-100: the existence test, the device, then the output path
TvExists ==
    /\ tvpc = "start"
    /\ IF ~tv_exists
       THEN /\ tv_ret' = "False"
            /\ tvpc' = "returned"
            /\ UNCHANGED <<output_path, step>>
       ELSE /\ output_path' = resolved_output_path(output_path)
            /\ step' = 1
            /\ tvpc' = "collaborators"
            /\ tv_ret' = tv_ret
    /\ UNCHANGED <<terms, advanced, textVars, pipeVars, googleVars, promptVars, langVars,
                   tv_exists, sanitize, transcription_text, tv_calls, tv_raised, tv_files>>

\* lines 108-124: one call; it returns, or raises into the except
TvCollaborator ==
    /\ tvpc = "collaborators"
    /\ tv_calls' = Append(tv_calls, Collaborators[step])
    /\ \E ok \in BOOLEAN :
         IF ok
         THEN /\ IF step < Len(Collaborators)
                 THEN step' = step + 1 /\ tvpc' = tvpc
                 ELSE step' = step /\ tvpc' = "write_original"
              /\ UNCHANGED <<tv_raised, tv_ret>>
         ELSE /\ tv_raised' = Collaborators[step]
              /\ tv_ret' = tv_except
              /\ tvpc' = "returned"
              /\ step' = step
    /\ UNCHANGED <<terms, advanced, textVars, pipeVars, googleVars, promptVars, langVars,
                   tv_exists, output_path, sanitize, transcription_text, tv_files>>

\* lines 127-133: the text of the segments, written stripped
TvWriteOriginal ==
    /\ tvpc = "write_original"
    /\ \E ok \in BOOLEAN :
         IF ok
         THEN /\ tv_files' = WriteFile(tv_files, output_path, strip(transcription_text))
              /\ tvpc' = IF sanitize THEN "write_sanitized" ELSE "return"
              /\ UNCHANGED <<tv_raised, tv_ret>>
         ELSE /\ tv_raised' = "open"
              /\ tv_ret' = tv_except
              /\ tvpc' = "returned"
              /\ tv_files' = tv_files
    /\ UNCHANGED <<terms, advanced, textVars, pipeVars, googleVars, promptVars, langVars,
                   tv_exists, output_path, sanitize, transcription_text, step, tv_calls>>

\* lines 138-148: `if sanitize:`
TvWriteSanitized ==
    /\ tvpc = "write_sanitized"
    /\ \E ok \in BOOLEAN :
         IF ok
         THEN /\ tv_files' = WriteFile(tv_files, sanitized_output_path(output_path),
                                       strip(sanitize_text(transcription_text)))
              /\ tvpc' = "return"
              /\ UNCHANGED <<tv_raised, tv_ret>>
         ELSE /\ tv_raised' = "open"
              /\ tv_ret' = tv_except
              /\ tvpc' = "returned"
              /\ tv_files' = tv_files
    /\ UNCHANGED <<terms, advanced, textVars, pipeVars, googleVars, promptVars, langVars,
                   tv_exists, output_path, sanitize, transcription_text, step, tv_calls>>

\* line 154: return True
TvReturn ==
    /\ tvpc = "return"
    /\ tv_ret' = "True"
    /\ tvpc' = "returned"
    /\ UNCHANGED <<terms, advanced, textVars, pipeVars, googleVars, promptVars, langVars,
                   tv_exists, output_path, sanitize, transcription_text, step, tv_calls,
                   tv_raised, tv_files>>

TvNext ==
    \/ TvExists
    \/ TvCollaborator
    \/ TvWriteOriginal
    \/ TvWriteSanitized
    \/ TvReturn

SpecTranscribe == TvInit /\ [][TvNext]_vars

----------------------------------------------------------------------------
(* Properties of sanitize_text and reverse_sanitize_text *)

LowerSeq(s) == [i \in 1..Len(s) |-> Lower(s[i])]

OccursAt(t, s, i) == i + Len(t) - 1 <= Len(s) /\ SubSeq(s, i, i + Len(t) - 1) = t

Occurs(t, s) == \E i \in 1..Len(s) : OccursAt(t, s, i)

OccursIgnoreCase(t, s) == Occurs(LowerSeq(t), LowerSeq(s))

\* the configuration of the repository
IsDefaultMap == terms = CONFIDENTIAL_TERMS /\ advanced = ADVANCED_PATTERNS

\* every occurrence of a confidential term in s, in whatever casing, is an
\* occurrence of one of the declared patterns in its declared casing
DeclaredCasingsOnly(s) ==
    \A i \in 1..Len(s) : \A k \in 1..Len(terms) :
        OccursAt(LowerSeq(terms[k].pattern), LowerSeq(s), i)
            => \E j \in 1..Len(terms) : OccursAt(terms[j].pattern, s, i)

\* every occurrence of a confidential term in s stands as a whole word
WholeWordTerms(s) ==
    \A i \in 1..Len(s) : \A k \in 1..Len(terms) :
        OccursAt(LowerSeq(terms[k].pattern), LowerSeq(s), i)
            => AtBoundary(s, i) /\ AtBoundary(s, i + Len(terms[k].pattern))

\* C1: with the default Term Map, restoring the sanitized form of a text whose
\* confidential terms appear in their declared casings gives the text back
\* (compared after strip(), as the reverse-sanitization test compares).  It is
\* stated here for the texts of the test's kind: the terms stand as whole
\* words and the text holds none of the codes beforehand.
C1_RoundTrip ==
    (IsDefaultMap /\ tpc = "restored" /\ DeclaredCasingsOnly(text)
        /\ WholeWordTerms(text) /\ ~Occurs(AC, text) /\ ~Occurs(KT, text))
        => strip(restored) = strip(text)

\* C2: with the default Term Map the output of sanitize_text contains no
\* original term of the map, compared case-insensitively.
C2_NoTermSurvives ==
    (IsDefaultMap /\ tpc \in {"sanitized", "restored"})
        => \A k \in 1..Len(terms) : ~OccursIgnoreCase(terms[k].pattern, sanitized)

\* a term in a casing the map does not declare was in the text and is gone
C2_Witness ==
    /\ IsDefaultMap
    /\ tpc = "sanitized"
    /\ OccursIgnoreCase(AnhChi, text)
    /\ ~Occurs(AnhChi, text) /\ ~Occurs(anhChi, text)
    /\ ~OccursIgnoreCase(AnhChi, sanitized)
    /\ Occurs(AC, sanitized)

FirstWith(code) ==
    CHOOSE k \in 1..Len(terms) :
        /\ terms[k].code = code
        /\ \A m \in 1..(k - 1) : terms[m].code # code

NoExactCode(s) ==
    \A j \in 1..Len(create_reverse_mapping) : ~Occurs(create_reverse_mapping[j].code, s)

\* C10: a text in which the codes of the reverse map appear in no exact-case
\* occurrence (only in another case, or not at all) is returned unchanged by
\* reverse_sanitize_text.
C10_CaseSensitiveRestore ==
    (tpc = "restored_external" /\ NoExactCode(text)) => restored = text

\* a code is there in another case, and the text came back as it was
C10_Witness ==
    /\ tpc = "restored_external"
    /\ NoExactCode(text)
    /\ OccursIgnoreCase(AC, text)
    /\ restored = text

\* C12: with the default Term Map, reverse_sanitize_text applied to a text it
\* returned gives that text again; no code of the reverse map is left as a
\* whole word in a restored text.
C12_RestoreIdempotent ==
    (IsDefaultMap /\ tpc = "restored_twice")
        => /\ again = restored
           /\ \A j \in 1..Len(create_reverse_mapping) :
                  restored = re_sub(<<WB>> \o create_reverse_mapping[j].code \o <<WB>>,
                                    << >>, restored, FALSE)

\* a text in which a code was restored, restored a second time
C12_Witness ==
    /\ IsDefaultMap
    /\ tpc = "restored_twice"
    /\ sanitized = << >>
    /\ Occurs(AC, text)
    /\ Occurs(AnhChi, restored)
    /\ restored # text
    /\ again = restored

\* C11: sanitize_text applies the entries in declared order, each to the text
\* the entry before it returned.  With the long phrase declared before its
\* suffix the phrase becomes KT and no X is produced; with the suffix declared
\* first the phrase becomes "Kie^'n X"; and the two orders give different
\* results on every text that holds the phrase.
C11_DeclaredOrder ==
    (tpc = "sanitized" /\ terms \in {LongFirst, SuffixFirst})
        => /\ sanitized = re_sub(terms[2].pattern, terms[2].code,
                                 re_sub(terms[1].pattern, terms[1].code, text, TRUE),
                                 TRUE)
           /\ (terms = LongFirst /\ text = KienThuc) => sanitized = KT
           /\ (terms = LongFirst /\ OccursIgnoreCase(KienThuc, text))
                 => /\ Occurs(KT, sanitized)
                    /\ ~Occurs(X, sanitized)
                    /\ sanitized # ApplyTerms(text, SuffixFirst, 1)
           /\ (terms = SuffixFirst /\ OccursIgnoreCase(KienThuc, text))
                 => /\ Occurs(X, sanitized)
                    /\ sanitized # ApplyTerms(text, LongFirst, 1)

\* the long phrase, sanitized under each of the two declaration orders
C11_Witness ==
    /\ tpc = "sanitized"
    /\ text = KienThuc
    /\ \/ terms = LongFirst /\ sanitized = KT
       \/ terms = SuffixFirst /\ sanitized = <<"K", "i", "e^'", "n", " ", "X">>

\* t stands at position i of s as a whole word
WordBoundedAt(t, s, i) ==
    OccursAt(t, s, i) /\ AtBoundary(s, i) /\ AtBoundary(s, i + Len(t))

\* the number of whole-word occurrences of t in s, and of the other ones
NWordBounded(t, s) == Cardinality({ i \in 1..Len(s) : WordBoundedAt(t, s, i) })

NEmbedded(t, s) ==
    Cardinality({ i \in 1..Len(s) : OccursAt(t, s, i) /\ ~WordBoundedAt(t, s, i) })

RECURSIVE Grown(_, _, _)
Grown(rm, s, j) ==
    IF j > Len(rm) THEN 0
    ELSE NWordBounded(rm[j].code, s) * (Len(rm[j].term) - Len(rm[j].code))
           + Grown(rm, s, j + 1)

\* the text the last call of reverse_sanitize_text was given
RestoreSource == IF tpc = "restored_external" THEN text ELSE sanitized

\* C22: after reverse_sanitize_text no code of the reverse map stands as a
\* whole word in exact case; each whole-word occurrence became its term (the
\* text grew by the difference of the lengths, once per occurrence); and the
\* occurrences of the code letters inside a longer word are all still there:
\* a text with no whole-word code comes back unchanged.
C22_WordBoundedRestore ==
    tpc \in {"restored", "restored_external"}
        => LET rm == create_reverse_mapping
           IN  /\ \A j \in 1..Len(rm) :
                     /\ NWordBounded(rm[j].code, restored) = 0
                     /\ NEmbedded(rm[j].code, restored) = NEmbedded(rm[j].code, RestoreSource)
               /\ Len(restored) = Len(RestoreSource) + Grown(rm, RestoreSource, 1)
               /\ (\A j \in 1..Len(rm) : NWordBounded(rm[j].code, RestoreSource) = 0)
                     => restored = RestoreSource

\* a text with a code as a whole word and the same letters inside a longer
\* word: the first was restored, the second is still there
C22_Witness ==
    /\ IsDefaultMap
    /\ tpc = "restored_external"
    /\ NWordBounded(AC, text) > 0
    /\ NEmbedded(AC, text) > 0
    /\ Occurs(AnhChi, restored)
    /\ NEmbedded(AC, restored) > 0
    /\ NWordBounded(AC, restored) = 0

NOccurs(t, s) == Cardinality({ i \in 1..Len(s) : OccursAt(t, s, i) })

\* no entry of the Term Map and no rule of ADVANCED_PATTERNS matches in s
NothingMatches(s) ==
    /\ \A k \in 1..Len(terms) : s = re_sub(terms[k].pattern, << >>, s, TRUE)
    /\ \A k \in 1..Len(advanced) : ~Occurs(advanced[k].pattern, s)

\* C23: sanitize_text first applies the Term Map, ignoring case, and then the
\* rules of ADVANCED_PATTERNS, in exact case and in declared order, to what
\* the first pass returned.  With the rules AC -> KT, KT -> X after the
\* default map, "Anh chi." becomes X (AC, then KT, then X), no AC and no KT is
\* left, and a lowercase "ac" of the text stays; with the rules in the other
\* order "Anh chi." becomes KT.  A text in which nothing matches, the empty
\* text among them, is returned unchanged.
C23_TwoPass ==
    tpc = "sanitized"
        => /\ (advanced = CodeRules /\ OccursIgnoreCase(AnhChi, text))
                 => /\ Occurs(X, sanitized)
                    /\ ~Occurs(AC, sanitized)
                    /\ ~Occurs(KT, sanitized)
           /\ (advanced = CodeRules /\ text = AnhChi) => sanitized = X
           /\ (advanced = CodeRules)
                 => NOccurs(<<"a", "c">>, sanitized) = NOccurs(<<"a", "c">>, text)
           /\ (advanced = CodeRulesReversed /\ text = AnhChi) => sanitized = KT
           /\ (advanced = CodeRulesReversed /\ text = KT) => sanitized = X
           /\ NothingMatches(text) => sanitized = text
           /\ text = << >> => sanitized = << >>

\* the term went through both passes; and a text that nothing matches
C23_Witness ==
    /\ tpc = "sanitized"
    /\ \/ advanced = CodeRules /\ text = anhChi /\ sanitized = X
       \/ /\ advanced = CodeRules /\ text = <<"a", "c", " ">>
          /\ NothingMatches(text) /\ sanitized = text

----------------------------------------------------------------------------
(* Properties of complete_pipeline *)

GenCalls == {"summarize_text", "translate_text"}

ProbeCalls == {"check_ollama_service", "check_model_available"}

StageEntered(stage) == \E i \in 1..Len(calls) : calls[i].target = stage

TranscriptionSucceeded == transcribed \in {"True", "paths"}

TranscriptionFailed ==
    \/ (ppc # "start" /\ ~video_exists)
    \/ transcribed \in {"False", "raised"}

C4_SkipPolicy ==
    (ppc = "done" /\ ~ollama_up /\ TranscriptionSucceeded /\ opt.translate_to)
        => /\ {"original", "sanitized"} \subseteq DOMAIN files
           /\ {"summary_sanitized", "summary_restored"} \cap DOMAIN files = {}
           /\ {"summary_sanitized", "summary_restored"} \cap DOMAIN results = {}
           /\ StageEntered("translation")

\* C5: complete_pipeline returns None only if the video is missing or the
\* transcription failed; when transcribe_video succeeded it returns the
\* mapping, which holds both transcription entries and an entry for each later
\* artifact that was written.
C5_PartialResult ==
    ppc = "done"
        => /\ ret = "None" => TranscriptionFailed
           /\ TranscriptionSucceeded
                => /\ ret = "results"
                   /\ {"transcription_original", "transcription_sanitized"}
                          \subseteq DOMAIN results
                   /\ \A a \in Artifacts \ {"original", "sanitized"} :
                          Written(a) => a \in DOMAIN results

SummaryFailed == ~opt.skip_summary /\ skip_summary

C7_TerminalFailure ==
    TranscriptionFailed
        => /\ ppc = "done"
           /\ ret = "None"
           /\ \A i \in 1..Len(calls) :
                  calls[i].op \notin ProbeCalls \cup GenCalls \cup {"reverse_sanitize_text"}
           /\ \A a \in {"original", "sanitized"} : Written(a) => a \in DOMAIN files

\* transcribe_video failed after it had written the original transcription
C7_Witness ==
    /\ transcribed \in {"False", "raised"}
    /\ Written("original")
    /\ "original" \in DOMAIN files
    /\ ppc = "done"
    /\ ret = "None"

\* the stage an event belongs to: Transcribing 1, Sanitizing 2, Summarizing 3,
\* Translating 4, Restoring 5
StageOf(e) ==
    CASE e.op = "transcribe_video" -> 1
      [] e.target = "original" -> 1
      [] e.target = "sanitized" -> 2
      [] e.target \in {"summary", "summary_sanitized"} -> 3
      [] e.target \in {"translation", "translation_sanitized"} -> 4
      [] OTHER -> 5

SanitizedOf(kind) ==
    IF kind = "summary" THEN "summary_sanitized" ELSE "translation_sanitized"

RestoredOf(kind) ==
    IF kind = "summary" THEN "summary_restored" ELSE "translation_restored"

Answered(op) == \E i \in 1..Len(calls) : calls[i].op = op /\ calls[i].ok

\* no file write of a generation stage raised, no collaborator raised
NoStageFault ==
    \A st \in (DOMAIN answers) \ {"transcription"} : answers[st].fault = "none"

GenOf(stage) == IF stage = "summary" THEN "summarize_text" ELSE "translate_text"

C16_ExitStatus ==
    exit_status # -1
        => /\ exit_status \in {0, 1}
           /\ exit_status = 0 <=> ret = "results"
           /\ exit_status = 0 <=> TranscriptionSucceeded
           /\ exit_status = 1 <=> ret = "None"

StageCalls == {"transcribe_video", "summarize_text", "translate_text"}

\* the collaborator call whose stage writes artifact a
WriterOf(a) ==
    CASE a \in {"original", "sanitized"} -> "transcribe_video"
      [] a \in {"summary_sanitized", "summary_restored"} -> "summarize_text"
      [] OTHER -> "translate_text"

IsWrite(i) == calls[i].op = "write"

Rank(p) ==
    CASE p = "start" -> 0
      [] p = "transcribe" -> 1
      [] p = "summary_probe" -> 2
      [] p = "summarize" -> 3
      [] p = "translate_probe" -> 4
      [] p = "translate" -> 5
      [] p = "return" -> 6
      [] p = "done" -> 7

NCalls(op) == Cardinality({ i \in 1..Len(calls) : calls[i].op = op })

----------------------------------------------------------------------------
(* Properties of the prompt *)

\* the template with each placeholder replaced where it stands in the
\* template, in one pass from the left
RECURSIVE Filled(_, _)
Filled(t, i) ==
    IF i > Len(t) THEN << >>
    ELSE IF StartsAt(TEXT, t, i)
         THEN ptext \o Filled(t, i + Len(TEXT))
    ELSE IF fn = "translate_text" /\ StartsAt(TARGET_LANG, t, i)
         THEN target_language \o Filled(t, i + Len(TARGET_LANG))
    ELSE IF fn = "translate_text" /\ source_language # << >> /\ StartsAt(SOURCE_LANG, t, i)
         THEN source_language \o Filled(t, i + Len(SOURCE_LANG))
    ELSE <<t[i]>> \o Filled(t, i + 1)

Verbatim(t, p) == t = << >> \/ \E i \in 1..Len(p) : StartsAt(t, p, i)

\* C24: the prompt built from a custom prompt is the template with {text}
\* replaced by the text and, in translate_text, {target_lang} and
\* {source_lang} by the languages; and the text stands in the prompt as it
\* was given, whatever it holds.
C24_PromptSubstitution ==
    fn # "none"
        => /\ custom_prompt # << >> => prompt = Filled(custom_prompt, 1)
           /\ Verbatim(ptext, prompt)

----------------------------------------------------------------------------
(* Properties of get_language_code *)

\* C25: a missing or empty language resolves to 'auto'; the name of a
\* supported language (in lower case or capitalized) and its code in
\* LANGUAGE_CODES resolve to that code; and resolving the result again gives
\* the same code.
C25_LanguageCode ==
    /\ (lpc # "arg" /\ language = << >>) => lang_code = <<"a", "u", "t", "o">>
    /\ lpc # "arg"
         => \A k \in 1..Len(LANGUAGE_CODES) :
                language \in { LANGUAGE_CODES[k].name, Capitalized(LANGUAGE_CODES[k].name),
                               LANGUAGE_CODES[k].code }
                    => lang_code = LANGUAGE_CODES[k].code
    /\ lpc = "twice" => lang_code2 = lang_code

----------------------------------------------------------------------------
(* Properties of transcribe_video *)

HasFile(p) == p \in DOMAIN tv_files

\* C26: transcribe_video returns True or False and never raises.  When the
\* video does not exist it returns False, no collaborator was called and no
\* file was written; when a call or a file operation raised it returns
\* False; when it returned True the original transcription is in its file
\* and, if sanitize is set, the sanitized one in its file; and without
\* sanitize no sanitized file is written.
C26_TranscribeReturns ==
    /\ tv_ret \in {"none yet", "True", "False"}
    /\ tvpc = "returned" => tv_ret \in {"True", "False"}
    /\ (tvpc = "returned" /\ ~tv_exists)
         => tv_ret = "False" /\ tv_calls = << >> /\ DOMAIN tv_files = {}
    /\ tv_raised # "none" => tvpc = "returned" /\ tv_ret = "False"
    /\ tv_ret = "True"
         => /\ tv_raised = "none"
            /\ Len(tv_calls) = Len(Collaborators)
            /\ HasFile(output_path)
            /\ tv_files[output_path] = strip(transcription_text)
            /\ sanitize
                 => \E p \in DOMAIN tv_files :
                        /\ p # output_path
                        /\ tv_files[p] = strip(sanitize_text(transcription_text))
    /\ ~sanitize => DOMAIN tv_files \subseteq {output_path}

\* the writing of the sanitized file raised after the original was written
C26_Witness ==
    /\ tvpc = "returned"
    /\ tv_ret = "False"
    /\ sanitize
    /\ tv_raised = "open"
    /\ HasFile(output_path)
    /\ Cardinality(DOMAIN tv_files) = 1

\* C28: whatever output path is given, one with a directory among them, the
\* files transcribe_video writes are in one directory: the sanitized
\* transcription is written beside the original one, under the name
\* {stem}_sanitized{ext}.
C28_CoLocated ==
    \A p \in DOMAIN tv_files :
        /\ p.dir = output_path.dir
        /\ \/ p = output_path
           \/ /\ p.stem = Append(output_path.stem, "_sanitized")
              /\ p.suffix = output_path.suffix

----------------------------------------------------------------------------
(* Properties of translate_with_google *)

\* translate_with_google failed after the driver was set up and the page
\* was opened
FailedOnPage ==
    gpc \in {"caller", "exited"} /\ driver # "None" /\ selector > 0 /\ pending # "none"

\* C19: every failure of translate_with_google after the driver is set up,
\* an element that is not found as well as a TimeoutException, reaches the
\* caller as a raised exception, and the screenshot was taken before.  Stated
\* for the failures on the opened page, which the inner try covers.
C19_FailureScreenshot ==
    FailedOnPage => translated.kind = "raised" /\ screenshot

\* translate_with_google has returned or raised
Left == gpc \in {"caller", "exited"}

\* C29: once translate_with_google has created a driver, driver.quit() has
\* been called exactly once when the function returns or raises, and never
\* before that nor without a driver; what the function returns is not empty
\* and differs from the text it was given.
C29_DriverQuitOnce ==
    /\ quits \in {0, 1}
    /\ (Left /\ driver # "None") => (driver = "quit" /\ quits = 1)
    /\ (~Left \/ driver = "None") => quits = 0
    /\ translated.kind = "returned"
          => (translated.text # << >> /\ translated.text # gtext)

\* the function raised on the page it had opened, and its driver was quit
C29_Witness ==
    /\ gpc = "caller"
    /\ translated.kind = "raised"
    /\ pending \in {"TimeoutException", "Exception"}
    /\ selector > 0
    /\ driver = "quit"
    /\ quits = 1

----------------------------------------------------------------------------
(* Properties of sanitize_text on its own result *)

\* entry k of tm has the code of an entry declared before it
SecondOfCode(tm, k) == \E j \in 1..(k - 1) : tm[j].code = tm[k].code

\* the entries of tm that are the first of their code, in declared order
FirstPerCode(tm) ==
    LET marked == [k \in 1..Len(tm) |-> [entry |-> tm[k], second |-> SecondOfCode(tm, k)]]
        kept   == SelectSeq(marked, LAMBDA r : ~r.second)
    IN  [k \in 1..Len(kept) |-> kept[k].entry]

\* the text the loop of sanitize_text hands to the re.sub of entry k
TextBefore(k) == ApplyTerms(text, SubSeq(terms, 1, k - 1), 1)

NoMatch(pat, s) == \A i \in 1..Len(s) : MatchEnd(s, i, pat, 1, TRUE) <= i

\* C30: with the default Term Map, sanitize_text(sanitize_text(t)) is
\* sanitize_text(t); the pattern of an entry that is the second of its code
\* ("anh chi.", "kie^'n thu+'c") matches nowhere in the text its re.sub is
\* given; and sanitize_text(t) is what the loop over the first entry of each
\* code returns.
C30_SanitizeIdempotent ==
    (IsDefaultMap /\ tpc \in {"sanitized", "sanitized_twice"})
        => /\ tpc = "sanitized_twice" => again = sanitized
           /\ \A k \in 1..Len(terms) :
                 SecondOfCode(terms, k) => NoMatch(terms[k].pattern, TextBefore(k))
           /\ sanitized = ApplyTerms(text, FirstPerCode(terms), 1)

\* a text with both terms in the casing of the second entries, sanitized twice
C30_Witness ==
    /\ IsDefaultMap
    /\ tpc = "sanitized_twice"
    /\ Occurs(anhChi, text)
    /\ Occurs(KienThuc, text)
    /\ sanitized # text
    /\ Occurs(AC, sanitized)
    /\ Occurs(KT, sanitized)
    /\ again = sanitized

====
